---- MODULE Spec2Model ----
(***************************************************************************)
(* Online-Retail-SQL: load_data.py loads a CSV of transaction lines into   *)
(* the SQLite table online_retail; run_analysis.py runs a fixed batch of   *)
(* SQL reports over it and exports each result table as a CSV artifact.    *)
(*                                                                         *)
(* Conventions of the model                                                *)
(*   - NULL / NaN / None is the empty tuple, a present value v is <<v>>.   *)
(*   - A text whose characters matter (InvoiceNo, InvoiceDate) is a tuple  *)
(*     of one-character strings.                                           *)
(*   - Money is counted in cents, a ROUND(x, 2) ratio in hundredths, so    *)
(*     2.55 is 255 and the percentage 50.00 is 5000.                       *)
(***************************************************************************)
EXTENDS Integers, Sequences, FiniteSets, TLC

\* ------------------------------------------------------------------------
\* Nullable values
\* ------------------------------------------------------------------------
NULL == <<>>

Some(v) == <<v>>

IsNull(x) == x = <<>>

Val(x) == x[1]

\* ------------------------------------------------------------------------
\* Characters and text
\* ------------------------------------------------------------------------
DigitChars == <<"0", "1", "2", "3", "4", "5", "6", "7", "8", "9">>

IsDigit(c) == \E n \in 1..10 : DigitChars[n] = c

DigitVal(c) == (CHOOSE n \in 1..10 : DigitChars[n] = c) - 1

IsSpace(c) == c = " "

\* Byte order of the characters the model uses (SQLite's BINARY collation).
Ord(c) ==
    CASE c = " " -> 32
      [] c = "-" -> 45
      [] c = "/" -> 47
      [] IsDigit(c) -> 48 + DigitVal(c)
      [] c = ":" -> 58
      [] c = "?" -> 63
      [] c = "C" -> 67
      [] c = "T" -> 84
      [] c = "c" -> 99
      [] OTHER -> 127

RECURSIVE TextLess(_, _)
TextLess(a, b) ==
    IF b = <<>> THEN FALSE
    ELSE IF a = <<>> THEN TRUE
    ELSE IF Ord(Head(a)) # Ord(Head(b)) THEN Ord(Head(a)) < Ord(Head(b))
    ELSE TextLess(Tail(a), Tail(b))

RECURSIVE LStrip(_)
LStrip(t) == IF t # <<>> /\ IsSpace(Head(t)) THEN LStrip(Tail(t)) ELSE t

RECURSIVE RStrip(_)
RStrip(t) ==
    IF t # <<>> /\ IsSpace(t[Len(t)]) THEN RStrip(SubSeq(t, 1, Len(t) - 1)) ELSE t

strip(t) == RStrip(LStrip(t))

\* n written with exactly w digits, zero padded
RECURSIVE Pad(_, _)
Pad(n, w) == IF w = 0 THEN <<>> ELSE Pad(n \div 10, w - 1) \o <<DigitChars[(n % 10) + 1]>>

\* n written without padding
Num(n) == IF n < 10 THEN Pad(n, 1) ELSE IF n < 100 THEN Pad(n, 2) ELSE Pad(n, 4)

\* ------------------------------------------------------------------------
\* Format-directed parsing (datetime.strptime and SQLite's date parser)
\* ------------------------------------------------------------------------
\* a numeric field f of lo..hi digits with a value in min..max
FNum(f, lo, hi, min, max) ==
    [k |-> "num", f |-> f, c |-> "", lo |-> lo, hi |-> hi, min |-> min, max |-> max]

\* a literal character
FLit(c) == [k |-> "lit", f |-> "", c |-> c, lo |-> 0, hi |-> 0, min |-> 0, max |-> 0]

\* a run of at least lo blanks
FWs(lo) == [k |-> "ws", f |-> "", c |-> " ", lo |-> lo, hi |-> 0, min |-> 0, max |-> 0]

NoFields == [Y |-> 0, m |-> 0, d |-> 0, H |-> 0, M |-> 0, S |-> 0]

RECURSIVE CountDigits(_, _, _)
CountDigits(t, i, max) ==
    IF max = 0 \/ i > Len(t) \/ ~IsDigit(t[i]) THEN 0
    ELSE 1 + CountDigits(t, i + 1, max - 1)

RECURSIVE CountSpaces(_, _)
CountSpaces(t, i) ==
    IF i > Len(t) \/ ~IsSpace(t[i]) THEN 0 ELSE 1 + CountSpaces(t, i + 1)

RECURSIVE NumAt(_, _, _)
NumAt(t, i, n) ==
    IF n = 0 THEN 0 ELSE 10 * NumAt(t, i, n - 1) + DigitVal(t[i + n - 1])

\* Matches text t from position i against the format items; the whole text
\* has to be consumed.
RECURSIVE Match(_, _, _, _)
Match(t, i, fmt, acc) ==
    IF fmt = <<>> THEN [ok |-> i = Len(t) + 1, v |-> acc]
    ELSE
        LET it == Head(fmt) IN
        CASE it.k = "lit" ->
                IF i <= Len(t) /\ t[i] = it.c
                THEN Match(t, i + 1, Tail(fmt), acc)
                ELSE [ok |-> FALSE, v |-> acc]
          [] it.k = "ws" ->
                LET n == CountSpaces(t, i) IN
                IF n >= it.lo
                THEN Match(t, i + n, Tail(fmt), acc)
                ELSE [ok |-> FALSE, v |-> acc]
          [] OTHER ->
                LET n == CountDigits(t, i, it.hi) IN
                IF n < it.lo THEN [ok |-> FALSE, v |-> acc]
                ELSE
                    LET x == NumAt(t, i, n) IN
                    IF x < it.min \/ x > it.max THEN [ok |-> FALSE, v |-> acc]
                    ELSE Match(t, i + n, Tail(fmt), [acc EXCEPT ![it.f] = x])

\* ------------------------------------------------------------------------
\* Calendar
\* ------------------------------------------------------------------------
IsLeap(y) == (y % 4 = 0 /\ y % 100 # 0) \/ y % 400 = 0

DaysInMonth(y, m) ==
    IF m = 2 THEN (IF IsLeap(y) THEN 29 ELSE 28)
    ELSE IF m \in {4, 6, 9, 11} THEN 30 ELSE 31

\* days from 1970-01-01 to y-m-d; d may run past the end of the month
DayNumber(y, m, d) ==
    LET yy  == IF m <= 2 THEN y - 1 ELSE y
        era == yy \div 400
        yoe == yy - era * 400
        mp  == IF m > 2 THEN m - 3 ELSE m + 9
        doy == (153 * mp + 2) \div 5 + d - 1
        doe == yoe * 365 + yoe \div 4 - yoe \div 100 + doy
    IN  era * 146097 + doe - 719468

\* ------------------------------------------------------------------------
\* load_data.py: parse_invoice_date
\* ------------------------------------------------------------------------
\* "%m/%d/%Y %H:%M", "%d-%m-%Y %H:%M", "%Y-%m-%d %H:%M:%S"
PyFormats ==
    << << FNum("m", 1, 2, 1, 12), FLit("/"), FNum("d", 1, 2, 1, 31), FLit("/"),
          FNum("Y", 4, 4, 1, 9999), FWs(1), FNum("H", 1, 2, 0, 23), FLit(":"),
          FNum("M", 1, 2, 0, 59) >>,
       << FNum("d", 1, 2, 1, 31), FLit("-"), FNum("m", 1, 2, 1, 12), FLit("-"),
          FNum("Y", 4, 4, 1, 9999), FWs(1), FNum("H", 1, 2, 0, 23), FLit(":"),
          FNum("M", 1, 2, 0, 59) >>,
       << FNum("Y", 4, 4, 1, 9999), FLit("-"), FNum("m", 1, 2, 1, 12), FLit("-"),
          FNum("d", 1, 2, 1, 31), FWs(1), FNum("H", 1, 2, 0, 23), FLit(":"),
          FNum("M", 1, 2, 0, 59), FLit(":"), FNum("S", 1, 2, 0, 59) >> >>

\* the checks datetime makes on the fields strptime read (r is the match)
DateOrError(r) ==
    IF r.ok /\ r.v.d <= DaysInMonth(r.v.Y, r.v.m) THEN Some(r.v) ELSE NULL

\* datetime.strptime: NULL stands for the ValueError
strptime(text, fmt) == DateOrError(Match(text, 1, fmt, NoFields))

\* dt.strftime("%Y-%m-%d %H:%M:%S")
strftime(dt) ==
    Pad(dt.Y, 4) \o <<"-">> \o Pad(dt.m, 2) \o <<"-">> \o Pad(dt.d, 2) \o <<" ">> \o
    Pad(dt.H, 2) \o <<":">> \o Pad(dt.M, 2) \o <<":">> \o Pad(dt.S, 2)

\* the for loop over the formats, with the fallback to the raw text
RECURSIVE TryFormats(_, _)
RECURSIVE TryNext(_, _, _)
TryFormats(text, fmts) ==
    IF fmts = <<>> THEN text
    ELSE TryNext(strptime(text, Head(fmts)), text, Tail(fmts))

\* the body of the loop: return on success, continue on ValueError
TryNext(dt, text, rest) ==
    IF IsNull(dt) THEN TryFormats(text, rest) ELSE strftime(Val(dt))

\* the same part as it would be if a text no format accepts gave None
ParseTextNoneOnFailure(text) ==
    IF text = <<>> \/ \A k \in DOMAIN PyFormats : IsNull(strptime(text, PyFormats[k]))
    THEN NULL
    ELSE Some(TryFormats(text, PyFormats))

\* the part of parse_invoice_date after the pd.isna test
ParseText(text) == IF text = <<>> THEN NULL ELSE Some(TryFormats(text, PyFormats))

parse_invoice_date(value) ==
    IF IsNull(value) THEN NULL ELSE ParseText(strip(Val(value)))

\* ------------------------------------------------------------------------
\* SQLite date functions as run_analysis.py uses them
\* ------------------------------------------------------------------------
\* YYYY-MM-DD, YYYY-MM-DD HH:MM, YYYY-MM-DD HH:MM:SS (fixed widths)
SqlDateFormats ==
    << << FNum("Y", 4, 4, 0, 9999), FLit("-"), FNum("m", 2, 2, 1, 12), FLit("-"),
          FNum("d", 2, 2, 1, 31) >>,
       << FNum("Y", 4, 4, 0, 9999), FLit("-"), FNum("m", 2, 2, 1, 12), FLit("-"),
          FNum("d", 2, 2, 1, 31), FWs(0), FNum("H", 2, 2, 0, 24), FLit(":"),
          FNum("M", 2, 2, 0, 59) >>,
       << FNum("Y", 4, 4, 0, 9999), FLit("-"), FNum("m", 2, 2, 1, 12), FLit("-"),
          FNum("d", 2, 2, 1, 31), FWs(0), FNum("H", 2, 2, 0, 24), FLit(":"),
          FNum("M", 2, 2, 0, 59), FLit(":"), FNum("S", 2, 2, 0, 59) >> >>

RECURSIVE SqlTryFormats(_, _)
RECURSIVE SqlTryNext(_, _, _)
SqlTryFormats(text, fmts) ==
    IF fmts = <<>> THEN NULL
    ELSE SqlTryNext(Match(text, 1, Head(fmts), NoFields), text, Tail(fmts))

SqlTryNext(r, text, rest) == IF r.ok THEN Some(r.v) ELSE SqlTryFormats(text, rest)

\* The date and time fields SQLite reads from a stored text; NULL when the
\* text is no date SQLite accepts.
SqlFields(x) == IF IsNull(x) THEN NULL ELSE SqlTryFormats(Val(x), SqlDateFormats)

\* the fields as an instant, in seconds from 1970-01-01
InstantOf(f) ==
    IF IsNull(f) THEN NULL
    ELSE Some(DayNumber(Val(f).Y, Val(f).m, Val(f).d) * 86400
              + Val(f).H * 3600 + Val(f).M * 60 + Val(f).S)

\* JULIANDAY(x), scaled to seconds from 1970-01-01
SqlInstant(x) == InstantOf(SqlFields(x))

\* the fields as 'YYYY-MM', without normalisation
MonthText(f) ==
    IF IsNull(f) THEN NULL ELSE Some(Pad(Val(f).Y, 4) \o <<"-">> \o Pad(Val(f).m, 2))

\* strftime('%Y-%m', x)
YearMonth(x) == MonthText(SqlFields(x))

HourField(f) == IF IsNull(f) THEN NULL ELSE Some(Val(f).H)

\* CAST(strftime('%H', x) AS INTEGER)
HourOfDay(x) == HourField(SqlFields(x))

\* the weekday of an instant: 0 is Sunday
WeekDayAt(t) == IF IsNull(t) THEN NULL ELSE Some(((Val(t) \div 86400) + 4) % 7)

\* CAST(strftime('%w', x) AS INTEGER)
WeekDay(x) == WeekDayAt(SqlInstant(x))

\* ------------------------------------------------------------------------
\* load_data.py: cleaning of one CSV row
\* ------------------------------------------------------------------------
\* A numeric CSV cell as read: absent, a number, or a text that is no number.
NumCell(n) == Some([num |-> TRUE, n |-> n])

TextCell == Some([num |-> FALSE, n |-> 0])

\* pd.to_numeric(..., errors="coerce")
to_numeric(cell) ==
    IF IsNull(cell) \/ ~Val(cell).num THEN NULL ELSE Some(Val(cell).n)

\* the "Basic cleaning" of a chunk, row by row
CleanRow(raw) ==
    [raw EXCEPT !.Quantity = to_numeric(raw.Quantity),
                !.UnitPrice = to_numeric(raw.UnitPrice),
                !.InvoiceDate = parse_invoice_date(raw.InvoiceDate)]

CleanChunk(chunk) == [i \in 1..Len(chunk) |-> CleanRow(chunk[i])]

\* ------------------------------------------------------------------------
\* SQL building blocks (SQLite semantics)
\* ------------------------------------------------------------------------
Col(T, F(_)) == [i \in 1..Len(T) |-> F(T[i])]

Where(T, P(_)) == SelectSeq(T, P)

NonNull(vals) == SelectSeq(vals, LAMBDA v : ~IsNull(v))

RECURSIVE Total(_)
Total(vals) == IF vals = <<>> THEN 0 ELSE Val(Head(vals)) + Total(Tail(vals))

\* SUM(x): NULL over no non-null value
SUM(vals) == IF NonNull(vals) = <<>> THEN NULL ELSE Some(Total(NonNull(vals)))

\* COUNT(DISTINCT x)
CountDistinct(vals) == Cardinality({vals[i] : i \in 1..Len(vals)} \ {NULL})

\* MIN(x) and MAX(x) over texts, in byte order
MinText(vals) ==
    LET S == {vals[i] : i \in 1..Len(vals)} \ {NULL} IN
    IF S = {} THEN NULL
    ELSE CHOOSE v \in S : \A w \in S : ~TextLess(Val(w), Val(v))

MaxText(vals) ==
    LET S == {vals[i] : i \in 1..Len(vals)} \ {NULL} IN
    IF S = {} THEN NULL
    ELSE CHOOSE v \in S : \A w \in S : ~TextLess(Val(v), Val(w))

\* n / d rounded to the nearest integer, halves away from zero (d > 0)
HalfAway(n, d) ==
    IF n >= 0 THEN (2 * n + d) \div (2 * d) ELSE -((2 * (-n) + d) \div (2 * d))

\* ROUND(n / d, 2) as it would be if a division by zero gave 0
RoundedDivZeroIsZero(n, d) ==
    IF IsNull(n) \/ IsNull(d) THEN NULL
    ELSE IF Val(d) = 0 THEN Some(0)
    ELSE Some(HalfAway(Val(n), Val(d)))

\* ROUND(n / d, 2) with n already scaled to hundredths: SQLite gives NULL for
\* a NULL operand and for a division by zero.
RoundedDiv(n, d) ==
    IF IsNull(n) \/ IsNull(d) \/ Val(d) = 0 THEN NULL
    ELSE Some(HalfAway(Val(n), Val(d)))

\* ROUND(100.0 * n / d, 2)
Percent(n, d) ==
    IF IsNull(n) THEN NULL ELSE RoundedDiv(Some(10000 * Val(n)), d)

\* NULLIF(x, 0)
NullIfZero(x) == IF x = Some(0) THEN NULL ELSE x

\* x LIKE 'C%' on a text (LIKE ignores the case of ASCII letters)
LikeC(text) == text # <<>> /\ Head(text) \in {"C", "c"}

\* InvoiceNo LIKE 'C%' is true
IsCancelled(r) == ~IsNull(r.InvoiceNo) /\ LikeC(Val(r.InvoiceNo))

\* InvoiceNo NOT LIKE 'C%' as it would be if the match looked at the case
NotCancelledUpperCaseOnly(r) ==
    ~IsNull(r.InvoiceNo) /\ (Val(r.InvoiceNo) = <<>> \/ Head(Val(r.InvoiceNo)) # "C")

\* InvoiceNo NOT LIKE 'C%' is true (it is NULL, not true, for a NULL InvoiceNo)
NotCancelled(r) == ~IsNull(r.InvoiceNo) /\ ~LikeC(Val(r.InvoiceNo))

PriceKnown(r) == ~IsNull(r.UnitPrice)

HasCustomer(r) == ~IsNull(r.CustomerID)

HasDate(r) == ~IsNull(r.InvoiceDate)

QtyPos(r) == ~IsNull(r.Quantity) /\ Val(r.Quantity) > 0

QtyNeg(r) == ~IsNull(r.Quantity) /\ Val(r.Quantity) < 0

\* Quantity * UnitPrice
LineValue(r) ==
    IF IsNull(r.Quantity) \/ IsNull(r.UnitPrice) THEN NULL
    ELSE Some(Val(r.Quantity) * Val(r.UnitPrice))

\* CASE WHEN Quantity > 0 THEN Quantity * UnitPrice ELSE 0 END
SalesValue(r) == IF QtyPos(r) THEN LineValue(r) ELSE Some(0)

\* CASE WHEN Quantity < 0 THEN ABS(Quantity * UnitPrice) ELSE 0 END
ReturnValue(r) ==
    IF QtyNeg(r)
    THEN (IF IsNull(LineValue(r)) THEN NULL
          ELSE Some(IF Val(LineValue(r)) < 0 THEN -Val(LineValue(r)) ELSE Val(LineValue(r))))
    ELSE Some(0)

\* CASE WHEN Quantity > 0 THEN Quantity ELSE 0 END
SoldQty(r) == IF QtyPos(r) THEN r.Quantity ELSE Some(0)

\* CASE WHEN Quantity < 0 THEN ABS(Quantity) ELSE 0 END
ReturnedQty(r) == IF QtyNeg(r) THEN Some(-Val(r.Quantity)) ELSE Some(0)

InvoiceNoOf(r) == r.InvoiceNo

CustomerOf(r) == r.CustomerID

StockCodeOf(r) == r.StockCode

CountryOf(r) == r.Country

DateOf(r) == r.InvoiceDate

MonthOf(r) == YearMonth(r.InvoiceDate)

\* the values a GROUP BY key takes (NULL is a group of its own)
Keys(T, K(_)) == {K(T[i]) : i \in 1..Len(T)}

\* the rows of one group
Group(T, K(_), k) == SelectSeq(T, LAMBDA r : K(r) = k)

\* ORDER BY on a nullable text key: NULL sorts first
KeyBefore(a, b) == a # b /\ (IsNull(a) \/ (~IsNull(b) /\ TextLess(Val(a), Val(b))))

\* ------------------------------------------------------------------------
\* run_analysis.py: the reports.  A result table is the set of its rows (the
\* columns under their SQL names); T is the table online_retail.
\* ------------------------------------------------------------------------
\* 1.1
total_rows(T) == {[total_rows |-> Len(T)]}

\* 1.2
revenue_breakdown(T) ==
    LET W == Where(T, PriceKnown) IN
    {[total_revenue |-> SUM(Col(W, LineValue)),
      sales_revenue |-> SUM(Col(W, SalesValue)),
      return_value  |-> SUM(Col(W, ReturnValue))]}

\* 1.3
distinct_counts(T) ==
    {[total_invoices     |-> CountDistinct(Col(T, InvoiceNoOf)),
      valid_invoices     |-> CountDistinct(Col(Where(T, NotCancelled), InvoiceNoOf)),
      cancelled_invoices |-> CountDistinct(Col(Where(T, IsCancelled), InvoiceNoOf)),
      total_customers    |-> CountDistinct(Col(T, CustomerOf)),
      total_products     |-> CountDistinct(Col(T, StockCodeOf)),
      total_countries    |-> CountDistinct(Col(T, CountryOf))]}

\* SUM(CASE WHEN c THEN 1 ELSE 0 END)
CountWhere(T, P(_)) == IF T = <<>> THEN NULL ELSE Some(Len(Where(T, P)))

MissingDescription(r) == IsNull(r.Description) \/ r.Description = Some("")

\* 2.1
missing_values(T) ==
    {[total_rows              |-> Len(T),
      missing_customer_id     |-> CountWhere(T, LAMBDA r : ~HasCustomer(r)),
      pct_missing_customer_id |->
          Percent(CountWhere(T, LAMBDA r : ~HasCustomer(r)), Some(Len(T))),
      missing_description     |-> CountWhere(T, MissingDescription)]}

\* 2.2
cancellation_analysis(T) ==
    LET cancelled == CountDistinct(Col(Where(T, IsCancelled), InvoiceNoOf))
        total     == CountDistinct(Col(T, InvoiceNoOf))
    IN  {[cancelled_invoices    |-> cancelled,
          total_invoices        |-> total,
          cancellation_rate_pct |-> Percent(Some(cancelled), Some(total))]}

\* 2.3
returns_analysis(T) ==
    LET W == Where(T, LAMBDA r : QtyNeg(r) /\ PriceKnown(r)) IN
    {[return_transactions     |-> Len(W),
      total_returned_quantity |-> SUM(Col(W, LAMBDA r : r.Quantity)),
      return_value            |-> SUM(Col(W, LineValue)),
      return_invoices         |-> CountDistinct(Col(W, InvoiceNoOf))]}

\* the rows most revenue reports would read without the test on InvoiceNo
PricedWithCancelled(T) == Where(T, PriceKnown)

\* the rows most revenue reports read
Priced(T) == Where(T, LAMBDA r : PriceKnown(r) /\ NotCancelled(r))

\* 3.1
top_countries(T) ==
    LET W == Priced(T) IN
    {LET G == Group(W, CountryOf, k) IN
     [Country         |-> k,
      sales_revenue   |-> SUM(Col(G, SalesValue)),
      num_invoices    |-> CountDistinct(Col(G, InvoiceNoOf)),
      num_customers   |-> CountDistinct(Col(G, CustomerOf)),
      avg_order_value |->
          RoundedDiv(SUM(Col(G, SalesValue)),
                     NullIfZero(Some(CountDistinct(Col(G, InvoiceNoOf)))))]
     : k \in Keys(W, CountryOf)}

\* the rows the monthly reports read
Dated(T) == Where(T, LAMBDA r : HasDate(r) /\ PriceKnown(r) /\ NotCancelled(r))

\* 3.2
monthly_trend(T) ==
    LET W == Dated(T) IN
    {LET G == Group(W, MonthOf, k) IN
     [year_month    |-> k,
      sales_revenue |-> SUM(Col(G, SalesValue)),
      num_invoices  |-> CountDistinct(Col(G, InvoiceNoOf)),
      num_customers |-> CountDistinct(Col(G, CustomerOf))]
     : k \in Keys(W, MonthOf)}

\* the CTE monthly_revenue
monthly_revenue(T) ==
    LET W == Dated(T) IN
    {[year_month |-> k, revenue |-> SUM(Col(Group(W, MonthOf, k), SalesValue))]
     : k \in Keys(W, MonthOf)}

\* the window function as it would be with a default of 0: LAG(revenue, 1, 0)
LagRevenueOrZero(M, k) ==
    LET before == {m \in M : KeyBefore(m.year_month, k)} IN
    IF before = {} THEN Some(0)
    ELSE (CHOOSE m \in before :
            \A o \in before : ~KeyBefore(m.year_month, o.year_month)).revenue

\* LAG(revenue) OVER (ORDER BY year_month) for the row of month k
LagRevenue(M, k) ==
    LET before == {m \in M : KeyBefore(m.year_month, k)} IN
    IF before = {} THEN NULL
    ELSE (CHOOSE m \in before :
            \A o \in before : ~KeyBefore(m.year_month, o.year_month)).revenue

\* a - b, NULL for a NULL operand
Minus(a, b) == IF IsNull(a) \/ IsNull(b) THEN NULL ELSE Some(Val(a) - Val(b))

\* 3.3
revenue_growth(T) ==
    LET M == monthly_revenue(T) IN
    {LET prev == LagRevenue(M, m.year_month) IN
     [year_month             |-> m.year_month,
      revenue                |-> m.revenue,
      previous_month_revenue |-> prev,
      revenue_change         |-> Minus(m.revenue, prev),
      growth_rate_pct        |-> Percent(Minus(m.revenue, prev), NullIfZero(prev))]
     : m \in M}

\* the rows of 3.3 in their order: ORDER BY year_month (one row per key,
\* the NULL key first)
revenue_growth_sorted(T) ==
    LET G == revenue_growth(T) IN
    [k \in 1..Cardinality(G) |->
        CHOOSE x \in G :
            Cardinality({y \in G : KeyBefore(y.year_month, x.year_month)}) = k - 1]

\* the rows the customer reports read
OfCustomers(T) ==
    Where(T, LAMBDA r : HasCustomer(r) /\ PriceKnown(r) /\ NotCancelled(r))

\* 4.1
top_customers(T) ==
    LET W == OfCustomers(T) IN
    {LET G == Group(W, CustomerOf, k) IN
     [CustomerID          |-> k,
      customer_revenue    |-> SUM(Col(G, SalesValue)),
      num_invoices        |-> CountDistinct(Col(G, InvoiceNoOf)),
      num_transactions    |-> Len(G),
      first_purchase_date |-> MinText(Col(G, DateOf)),
      last_purchase_date  |-> MaxText(Col(G, DateOf)),
      avg_order_value     |->
          RoundedDiv(SUM(Col(G, SalesValue)),
                     NullIfZero(Some(CountDistinct(Col(G, InvoiceNoOf)))))]
     : k \in Keys(W, CustomerOf)}

\* the CASE of 4.2
purchase_frequency_category(invoice_count) ==
    IF invoice_count = 1 THEN "1 purchase"
    ELSE IF invoice_count >= 2 /\ invoice_count <= 5 THEN "2-5 purchases"
    ELSE IF invoice_count >= 6 /\ invoice_count <= 10 THEN "6-10 purchases"
    ELSE IF invoice_count >= 11 /\ invoice_count <= 20 THEN "11-20 purchases"
    ELSE IF invoice_count >= 21 /\ invoice_count <= 50 THEN "21-50 purchases"
    ELSE "50+ purchases"

\* the subquery customer_freq
customer_freq(T) ==
    LET W == Where(T, LAMBDA r : HasCustomer(r) /\ NotCancelled(r)) IN
    {[CustomerID    |-> k,
      invoice_count |-> CountDistinct(Col(Group(W, CustomerOf, k), InvoiceNoOf))]
     : k \in Keys(W, CustomerOf)}

\* 4.2
customer_frequency(T) ==
    LET F == customer_freq(T)
        all == CountDistinct(Col(Where(T, HasCustomer), CustomerOf))
    IN  {LET n == Cardinality({f \in F : purchase_frequency_category(f.invoice_count) = c}) IN
         [purchase_frequency_category |-> c,
          num_customers               |-> n,
          percentage                  |-> Percent(Some(n), Some(all))]
         : c \in {purchase_frequency_category(f.invoice_count) : f \in F}}

\* 4.3
customer_clv(T) ==
    LET W == OfCustomers(T)
        all == {LET G == Group(W, CustomerOf, k) IN
                [CustomerID        |-> k,
                 total_revenue     |-> SUM(Col(G, SalesValue)),
                 total_orders      |-> CountDistinct(Col(G, InvoiceNoOf)),
                 active_months     |-> CountDistinct(Col(G, MonthOf)),
                 first_purchase    |-> MinText(Col(G, DateOf)),
                 last_purchase     |-> MaxText(Col(G, DateOf)),
                 revenue_per_month |->
                     RoundedDiv(SUM(Col(G, SalesValue)),
                                NullIfZero(Some(CountDistinct(Col(G, MonthOf)))))]
                : k \in Keys(W, CustomerOf)}
    IN  {g \in all : g.total_orders >= 2}

\* the rows the RFM, time-pattern and cohort reports read
Sales(T) == Where(T, LAMBDA r : PriceKnown(r) /\ NotCancelled(r) /\ QtyPos(r))

\* the CTE customer_metrics; now is the reading of JULIANDAY('now') and
\* days_since_last_purchase is kept in seconds
customer_metrics(T, now) ==
    LET W == Where(Sales(T), HasCustomer) IN
    {LET G == Group(W, CustomerOf, k) IN
     [CustomerID               |-> k,
      last_purchase_date       |-> MaxText(Col(G, DateOf)),
      frequency                |-> CountDistinct(Col(G, InvoiceNoOf)),
      monetary_value           |-> SUM(Col(G, SalesValue)),
      days_since_last_purchase |->
          Minus(Some(now), SqlInstant(MaxText(Col(G, DateOf))))]
     : k \in Keys(W, CustomerOf)}

\* the CASE on days_since_last_purchase with < for <=
recency_score_exclusive(days) ==
    IF IsNull(days) THEN 1
    ELSE IF Val(days) < 30 * 86400 THEN 5
    ELSE IF Val(days) < 60 * 86400 THEN 4
    ELSE IF Val(days) < 90 * 86400 THEN 3
    ELSE IF Val(days) < 180 * 86400 THEN 2
    ELSE 1

\* the CASE on days_since_last_purchase (a NULL fails every WHEN)
recency_score(days) ==
    IF IsNull(days) THEN 1
    ELSE IF Val(days) <= 30 * 86400 THEN 5
    ELSE IF Val(days) <= 60 * 86400 THEN 4
    ELSE IF Val(days) <= 90 * 86400 THEN 3
    ELSE IF Val(days) <= 180 * 86400 THEN 2
    ELSE 1

\* the CASE on frequency
frequency_score(frequency) ==
    IF frequency >= 50 THEN 5
    ELSE IF frequency >= 20 THEN 4
    ELSE IF frequency >= 10 THEN 3
    ELSE IF frequency >= 5 THEN 2
    ELSE 1

\* the CASE on monetary_value (in cents)
monetary_score(monetary_value) ==
    IF IsNull(monetary_value) THEN 1
    ELSE IF Val(monetary_value) >= 5000 * 100 THEN 5
    ELSE IF Val(monetary_value) >= 2000 * 100 THEN 4
    ELSE IF Val(monetary_value) >= 1000 * 100 THEN 3
    ELSE IF Val(monetary_value) >= 500 * 100 THEN 2
    ELSE 1

\* the CASE that names the segment, with the third and fourth WHEN exchanged
customer_segment_at_risk_first(recency, frequency, monetary) ==
    IF recency >= 4 /\ frequency >= 4 /\ monetary >= 4 THEN "Champions"
    ELSE IF recency >= 3 /\ frequency >= 4 /\ monetary >= 3 THEN "Loyal Customers"
    ELSE IF recency >= 3 /\ frequency <= 2 /\ monetary >= 3 THEN "At Risk"
    ELSE IF recency >= 4 /\ frequency <= 2 THEN "Potential Loyalists"
    ELSE IF recency <= 2 /\ frequency >= 3 THEN "Cannot Lose Them"
    ELSE IF recency <= 2 /\ frequency <= 2 /\ monetary >= 3 THEN "Hibernating"
    ELSE IF recency <= 2 THEN "Lost"
    ELSE "Need Attention"

\* the CASE that names the segment, with the sixth and seventh WHEN exchanged
customer_segment_lost_first(recency, frequency, monetary) ==
    IF recency >= 4 /\ frequency >= 4 /\ monetary >= 4 THEN "Champions"
    ELSE IF recency >= 3 /\ frequency >= 4 /\ monetary >= 3 THEN "Loyal Customers"
    ELSE IF recency >= 4 /\ frequency <= 2 THEN "Potential Loyalists"
    ELSE IF recency >= 3 /\ frequency <= 2 /\ monetary >= 3 THEN "At Risk"
    ELSE IF recency <= 2 /\ frequency >= 3 THEN "Cannot Lose Them"
    ELSE IF recency <= 2 THEN "Lost"
    ELSE IF recency <= 2 /\ frequency <= 2 /\ monetary >= 3 THEN "Hibernating"
    ELSE "Need Attention"

\* the CASE that names the segment
customer_segment(recency, frequency, monetary) ==
    IF recency >= 4 /\ frequency >= 4 /\ monetary >= 4 THEN "Champions"
    ELSE IF recency >= 3 /\ frequency >= 4 /\ monetary >= 3 THEN "Loyal Customers"
    ELSE IF recency >= 4 /\ frequency <= 2 THEN "Potential Loyalists"
    ELSE IF recency >= 3 /\ frequency <= 2 /\ monetary >= 3 THEN "At Risk"
    ELSE IF recency <= 2 /\ frequency >= 3 THEN "Cannot Lose Them"
    ELSE IF recency <= 2 /\ frequency <= 2 /\ monetary >= 3 THEN "Hibernating"
    ELSE IF recency <= 2 THEN "Lost"
    ELSE "Need Attention"

\* 5.1
rfm_segments(T, now) ==
    {LET r == recency_score(c.days_since_last_purchase)
         f == frequency_score(c.frequency)
         m == monetary_score(c.monetary_value)
     IN  [CustomerID               |-> c.CustomerID,
          last_purchase_date       |-> c.last_purchase_date,
          days_since_last_purchase |-> c.days_since_last_purchase,
          frequency                |-> c.frequency,
          monetary_value           |-> c.monetary_value,
          recency_score            |-> r,
          frequency_score          |-> f,
          monetary_score           |-> m,
          rfm_score                |-> r + f + m,
          customer_segment         |-> customer_segment(r, f, m)]
     : c \in customer_metrics(T, now)}

\* a set as a sequence, in some order
RECURSIVE SeqOf(_)
SeqOf(S) ==
    IF S = {} THEN <<>>
    ELSE LET x == CHOOSE y \in S : TRUE IN <<x>> \o SeqOf(S \ {x})

\* ROUND(AVG(x), 2) of values counted in hundredths
Avg(vals) == RoundedDiv(SUM(vals), Some(Len(NonNull(vals))))

\* 5.2
rfm_summary(T, now) ==
    LET S == rfm_segments(T, now) IN
    {LET G == SeqOf({c \in S : c.customer_segment = g}) IN
     [customer_segment   |-> g,
      num_customers      |-> Len(G),
      percentage         |-> Percent(Some(Len(G)), Some(Cardinality(S))),
      total_revenue      |-> SUM(Col(G, LAMBDA c : c.monetary_value)),
      avg_customer_value |-> Avg(Col(G, LAMBDA c : c.monetary_value))]
     : g \in {c.customer_segment : c \in S}}

\* GROUP BY StockCode, Description
ProductOf(r) == <<r.StockCode, r.Description>>

\* COALESCE(Description, 'No Description')
DescriptionOrDefault(d) == IF IsNull(d) THEN Some("No Description") ELSE d

\* 6.1
top_products_rev(T) ==
    LET W == Priced(T) IN
    {LET G == Group(W, ProductOf, k) IN
     [StockCode           |-> k[1],
      Description         |-> DescriptionOrDefault(k[2]),
      product_revenue     |-> SUM(Col(G, SalesValue)),
      total_quantity_sold |-> SUM(Col(G, SoldQty)),
      times_purchased     |-> CountDistinct(Col(G, InvoiceNoOf)),
      unique_customers    |-> CountDistinct(Col(G, CustomerOf)),
      avg_unit_price      |-> Avg(Col(G, LAMBDA r : r.UnitPrice))]
     : k \in Keys(W, ProductOf)}

\* 6.2
top_products_qty(T) ==
    LET W == Priced(T) IN
    {LET G == Group(W, ProductOf, k) IN
     [StockCode           |-> k[1],
      Description         |-> DescriptionOrDefault(k[2]),
      total_quantity_sold |-> SUM(Col(G, SoldQty)),
      product_revenue     |-> SUM(Col(G, SalesValue)),
      times_purchased     |-> CountDistinct(Col(G, InvoiceNoOf)),
      unique_customers    |-> CountDistinct(Col(G, CustomerOf))]
     : k \in Keys(W, ProductOf)}

\* a + b, NULL for a NULL operand
Plus(a, b) == IF IsNull(a) \/ IsNull(b) THEN NULL ELSE Some(Val(a) + Val(b))

\* 6.3
product_returns(T) ==
    LET W == Priced(T)
        all == {LET G == Group(W, ProductOf, k) IN
                [StockCode       |-> k[1],
                 Description     |-> DescriptionOrDefault(k[2]),
                 total_sold      |-> SUM(Col(G, SoldQty)),
                 total_returned  |-> SUM(Col(G, ReturnedQty)),
                 return_rate_pct |->
                     Percent(SUM(Col(G, ReturnedQty)),
                             NullIfZero(Plus(SUM(Col(G, SoldQty)),
                                             SUM(Col(G, ReturnedQty)))))]
                : k \in Keys(W, ProductOf)}
    IN  {g \in all : Val(g.total_sold) > 0}

\* the rows the time-pattern reports read
DatedSales(T) == Where(Sales(T), HasDate)

HourOf(r) == HourOfDay(r.InvoiceDate)

\* 7.1
hourly_pattern(T) ==
    LET W == DatedSales(T) IN
    {LET G == Group(W, HourOf, k) IN
     [hour_of_day      |-> k,
      num_invoices     |-> CountDistinct(Col(G, InvoiceNoOf)),
      num_transactions |-> Len(G),
      revenue          |-> SUM(Col(G, SalesValue))]
     : k \in Keys(W, HourOf)}

DayNames ==
    <<"Sunday", "Monday", "Tuesday", "Wednesday", "Thursday", "Friday", "Saturday">>

\* the CASE over CAST(strftime('%w', InvoiceDate) AS INTEGER), without ELSE
DayNameOf(r) ==
    LET w == WeekDay(r.InvoiceDate) IN
    IF IsNull(w) THEN NULL ELSE Some(DayNames[Val(w) + 1])

\* 7.2
day_of_week(T) ==
    LET W == DatedSales(T) IN
    {LET G == Group(W, DayNameOf, k) IN
     [day_of_week  |-> k,
      num_invoices |-> CountDistinct(Col(G, InvoiceNoOf)),
      revenue      |-> SUM(Col(G, SalesValue))]
     : k \in Keys(W, DayNameOf)}

\* 8.1
country_analysis(T) ==
    LET W == Priced(T) IN
    {LET G == Group(W, CountryOf, k) IN
     [Country              |-> k,
      num_customers        |-> CountDistinct(Col(G, CustomerOf)),
      num_invoices         |-> CountDistinct(Col(G, InvoiceNoOf)),
      num_products         |-> CountDistinct(Col(G, StockCodeOf)),
      sales_revenue        |-> SUM(Col(G, SalesValue)),
      avg_order_value      |->
          RoundedDiv(SUM(Col(G, SalesValue)),
                     NullIfZero(Some(CountDistinct(Col(G, InvoiceNoOf))))),
      revenue_per_customer |->
          RoundedDiv(SUM(Col(G, SalesValue)),
                     NullIfZero(Some(CountDistinct(Col(G, CustomerOf)))))]
     : k \in Keys(W, CountryOf)}

\* the CTE invoice_stats
invoice_totals(T) ==
    LET W == Sales(T) IN
    {[InvoiceNo       |-> k,
      invoice_revenue |-> SUM(Col(Group(W, InvoiceNoOf, k), SalesValue)),
      invoice_qty     |-> SUM(Col(Group(W, InvoiceNoOf, k), SoldQty))]
     : k \in Keys(W, InvoiceNoOf)}

\* MIN(x) and MAX(x) over numbers
MinNum(vals) ==
    LET S == {vals[i] : i \in 1..Len(vals)} \ {NULL} IN
    IF S = {} THEN NULL ELSE CHOOSE v \in S : \A w \in S : Val(v) <= Val(w)

MaxNum(vals) ==
    LET S == {vals[i] : i \in 1..Len(vals)} \ {NULL} IN
    IF S = {} THEN NULL ELSE CHOOSE v \in S : \A w \in S : Val(v) >= Val(w)

\* 9.1
invoice_stats(T) ==
    LET I == SeqOf(invoice_totals(T)) IN
    {[total_invoices        |-> Len(I),
      avg_order_value       |-> Avg(Col(I, LAMBDA i : i.invoice_revenue)),
      avg_items_per_invoice |->
          Avg(Col(I, LAMBDA i : Some(100 * Val(i.invoice_qty)))),
      max_order_value       |-> MaxNum(Col(I, LAMBDA i : i.invoice_revenue)),
      min_order_value       |-> MinNum(Col(I, LAMBDA i : i.invoice_revenue))]}

\* the subquery invoice_items
invoice_items(T) ==
    LET W == Where(T, LAMBDA r : NotCancelled(r) /\ QtyPos(r)) IN
    {[InvoiceNo         |-> k,
      items_per_invoice |-> SUM(Col(Group(W, InvoiceNoOf, k), SoldQty))]
     : k \in Keys(W, InvoiceNoOf)}

\* the CASE of 9.2 as it would be with the upper limit 5 left out of 2-5
basket_size_category_exclusive(items_per_invoice) ==
    IF items_per_invoice = 1 THEN "1 item"
    ELSE IF items_per_invoice >= 2 /\ items_per_invoice < 5 THEN "2-5 items"
    ELSE IF items_per_invoice >= 6 /\ items_per_invoice <= 10 THEN "6-10 items"
    ELSE IF items_per_invoice >= 11 /\ items_per_invoice <= 20 THEN "11-20 items"
    ELSE IF items_per_invoice >= 21 /\ items_per_invoice <= 50 THEN "21-50 items"
    ELSE "50+ items"

\* the CASE of 9.2
basket_size_category(items_per_invoice) ==
    IF items_per_invoice = 1 THEN "1 item"
    ELSE IF items_per_invoice >= 2 /\ items_per_invoice <= 5 THEN "2-5 items"
    ELSE IF items_per_invoice >= 6 /\ items_per_invoice <= 10 THEN "6-10 items"
    ELSE IF items_per_invoice >= 11 /\ items_per_invoice <= 20 THEN "11-20 items"
    ELSE IF items_per_invoice >= 21 /\ items_per_invoice <= 50 THEN "21-50 items"
    ELSE "50+ items"

\* 9.2
basket_distribution(T) ==
    LET I == invoice_items(T)
        all == CountDistinct(Col(Where(T, NotCancelled), InvoiceNoOf))
    IN  {LET n == Cardinality({i \in I : basket_size_category(Val(i.items_per_invoice)) = c}) IN
         [basket_size_category |-> c,
          num_invoices         |-> n,
          percentage           |-> Percent(Some(n), Some(all))]
         : c \in {basket_size_category(Val(i.items_per_invoice)) : i \in I}}

\* the CTE first_purchase
first_purchase(T) ==
    LET W == Where(T, LAMBDA r : HasCustomer(r) /\ NotCancelled(r) /\ QtyPos(r)) IN
    {[CustomerID              |-> k,
      first_purchase_date     |-> MinText(Col(Group(W, CustomerOf, k), MonthOf)),
      first_purchase_datetime |-> MinText(Col(Group(W, CustomerOf, k), DateOf))]
     : k \in Keys(W, CustomerOf)}

\* fp.first_purchase_date of the customer of row o (JOIN ... ON CustomerID)
CohortOf(T, o) ==
    (CHOOSE fp \in first_purchase(T) : fp.CustomerID = o.CustomerID).first_purchase_date

\* 10.1 as it would be with COUNT(*) for the customers column
customer_cohorts_counting_lines(T) ==
    LET J == Where(Sales(T), HasCustomer)
        CellOf(o) == <<CohortOf(T, o), MonthOf(o)>>
    IN  {LET G == Group(J, CellOf, k) IN
         [cohort_month |-> k[1],
          order_month  |-> k[2],
          customers    |-> Len(G),
          orders       |-> CountDistinct(Col(G, InvoiceNoOf)),
          revenue      |-> SUM(Col(G, SalesValue))]
         : k \in Keys(J, CellOf)}

\* 10.1
customer_cohorts(T) ==
    LET J == Where(Sales(T), HasCustomer)
        CellOf(o) == <<CohortOf(T, o), MonthOf(o)>>
    IN  {LET G == Group(J, CellOf, k) IN
         [cohort_month |-> k[1],
          order_month  |-> k[2],
          customers    |-> CountDistinct(Col(G, CustomerOf)),
          orders       |-> CountDistinct(Col(G, InvoiceNoOf)),
          revenue      |-> SUM(Col(G, SalesValue))]
         : k \in Keys(J, CellOf)}

\* 11.1
business_kpis(T) ==
    LET W == Priced(T) IN
    {[total_invoices            |-> CountDistinct(Col(W, InvoiceNoOf)),
      total_customers           |-> CountDistinct(Col(W, CustomerOf)),
      total_products            |-> CountDistinct(Col(W, StockCodeOf)),
      total_countries           |-> CountDistinct(Col(W, CountryOf)),
      total_sales_revenue       |-> SUM(Col(W, SalesValue)),
      avg_order_value           |->
          RoundedDiv(SUM(Col(W, SalesValue)),
                     NullIfZero(Some(CountDistinct(Col(W, InvoiceNoOf))))),
      avg_customer_value        |->
          RoundedDiv(SUM(Col(W, SalesValue)),
                     NullIfZero(Some(CountDistinct(Col(W, CustomerOf))))),
      avg_items_per_transaction |->
          Avg(Col(W, LAMBDA r : Some(100 * Val(SoldQty(r)))))]}

\* ------------------------------------------------------------------------
\* run_analysis.py: the batch of main(), in execution order
\* ------------------------------------------------------------------------
ReportNames ==
    <<"total_rows", "revenue_breakdown", "distinct_counts", "missing_values",
      "cancellation_analysis", "returns_analysis", "top_countries",
      "monthly_trend", "revenue_growth", "top_customers", "customer_frequency",
      "customer_clv", "rfm_segments", "rfm_summary", "top_products_rev",
      "top_products_qty", "product_returns", "hourly_pattern", "day_of_week",
      "country_analysis", "invoice_stats", "basket_distribution",
      "customer_cohorts", "business_kpis">>

Reports == {ReportNames[i] : i \in 1..Len(ReportNames)}

\* the position of a report in the batch
Pos(name) == CHOOSE i \in 1..Len(ReportNames) : ReportNames[i] = name

\* the rows the query of a report returns over table T
QueryRows(name, T, now) ==
    CASE name = "total_rows" -> total_rows(T)
      [] name = "revenue_breakdown" -> revenue_breakdown(T)
      [] name = "distinct_counts" -> distinct_counts(T)
      [] name = "missing_values" -> missing_values(T)
      [] name = "cancellation_analysis" -> cancellation_analysis(T)
      [] name = "returns_analysis" -> returns_analysis(T)
      [] name = "top_countries" -> top_countries(T)
      [] name = "monthly_trend" -> monthly_trend(T)
      [] name = "revenue_growth" -> revenue_growth(T)
      [] name = "top_customers" -> top_customers(T)
      [] name = "customer_frequency" -> customer_frequency(T)
      [] name = "customer_clv" -> customer_clv(T)
      [] name = "rfm_segments" -> rfm_segments(T, now)
      [] name = "rfm_summary" -> rfm_summary(T, now)
      [] name = "top_products_rev" -> top_products_rev(T)
      [] name = "top_products_qty" -> top_products_qty(T)
      [] name = "product_returns" -> product_returns(T)
      [] name = "hourly_pattern" -> hourly_pattern(T)
      [] name = "day_of_week" -> day_of_week(T)
      [] name = "country_analysis" -> country_analysis(T)
      [] name = "invoice_stats" -> invoice_stats(T)
      [] name = "basket_distribution" -> basket_distribution(T)
      [] name = "customer_cohorts" -> customer_cohorts(T)
      [] OTHER -> business_kpis(T)

\* the reports whose query reads JULIANDAY('now')
ReadsClock == {"rfm_segments", "rfm_summary"}

\* the reports main() prints with df.head(n)
PrintsHead ==
    {"customer_clv", "rfm_segments", "top_products_rev", "top_products_qty",
     "product_returns", "country_analysis", "customer_cohorts"}

\* the artifact save_to_csv is called with after each report (NULL: no call)
ArtifactOf(name) ==
    CASE name = "missing_values" -> Some("data_quality_report.csv")
      [] name = "top_countries" -> Some("top_countries.csv")
      [] name = "monthly_trend" -> Some("monthly_revenue_trend.csv")
      [] name = "revenue_growth" -> Some("revenue_growth_rate.csv")
      [] name = "top_customers" -> Some("top_customers.csv")
      [] name = "customer_frequency" -> Some("customer_frequency_distribution.csv")
      [] name = "customer_clv" -> Some("customer_lifetime_value.csv")
      [] name = "rfm_segments" -> Some("rfm_segments.csv")
      [] name = "rfm_summary" -> Some("rfm_segment_summary.csv")
      [] name = "top_products_rev" -> Some("top_products_by_revenue.csv")
      [] name = "top_products_qty" -> Some("top_products_by_quantity.csv")
      [] name = "product_returns" -> Some("product_return_rates.csv")
      [] name = "hourly_pattern" -> Some("hourly_sales_pattern.csv")
      [] name = "day_of_week" -> Some("day_of_week_analysis.csv")
      [] name = "country_analysis" -> Some("country_analysis.csv")
      [] name = "invoice_stats" -> Some("invoice_averages.csv")
      [] name = "basket_distribution" -> Some("basket_size_distribution.csv")
      [] name = "customer_cohorts" -> Some("customer_cohorts.csv")
      [] name = "business_kpis" -> Some("business_kpis.csv")
      [] OTHER -> NULL

\* ------------------------------------------------------------------------
\* Inputs: the CSV files the loader may find
\* ------------------------------------------------------------------------
\* the longest CSV file drawn from RowPool
MaxRows == 2

Slash(a, b, y, H, M) ==
    Num(a) \o <<"/">> \o Num(b) \o <<"/">> \o Pad(y, 4) \o <<" ">> \o Num(H) \o <<":">> \o Pad(M, 2)

Dash(a, b, y, H, M) ==
    Pad(a, 2) \o <<"-">> \o Pad(b, 2) \o <<"-">> \o Pad(y, 4) \o <<" ">> \o Pad(H, 2) \o <<":">> \o Pad(M, 2)

IsoShort(y, m, d, H, M) ==
    Pad(y, 4) \o <<"-">> \o Pad(m, 2) \o <<"-">> \o Pad(d, 2) \o <<" ">> \o Pad(H, 2) \o <<":">> \o Pad(M, 2)

Iso(y, m, d, H, M) == IsoShort(y, m, d, H, M) \o <<":", "0", "0">>

RawRow(inv, stock, desc, qty, date, price, cust, country) ==
    [InvoiceNo |-> inv, StockCode |-> Some(stock), Description |-> desc,
     Quantity |-> qty, InvoiceDate |-> date, UnitPrice |-> price,
     CustomerID |-> cust, Country |-> Some(country)]

\* the three lines of the end-to-end scenario
Scenario ==
    << RawRow(Some(Pad(536365, 6)), "85123A", Some("HEART HOLDER"), NumCell(6),
              Some(Slash(12, 1, 2010, 8, 26)), NumCell(255), Some(17850), "United Kingdom"),
       RawRow(Some(Pad(536365, 6)), "71053", Some("METAL LANTERN"), NumCell(6),
              Some(Slash(12, 1, 2010, 8, 26)), NumCell(339), Some(17850), "United Kingdom"),
       RawRow(Some(<<"C">> \o Pad(536379, 6)), "D", Some("Discount"), NumCell(-1),
              Some(Slash(12, 1, 2010, 9, 41)), NumCell(2750), Some(14527), "United Kingdom") >>

RowPool ==
    Scenario \o
    << \* the same customer again, a month later
       RawRow(Some(Pad(540001, 6)), "85123A", Some("HEART HOLDER"), NumCell(2),
              Some(Slash(1, 5, 2011, 10, 0)), NumCell(255), Some(17850), "United Kingdom"),
       \* a date no format accepts (month 13)
       RawRow(Some(Pad(540002, 6)), "22423", Some("CAKESTAND"), NumCell(1),
              Some(Slash(13, 1, 2011, 10, 0)), NumCell(1275), Some(14527), "France"),
       \* a guest line without description, date already in ISO form
       RawRow(Some(Pad(540003, 6)), "22423", NULL, NumCell(3),
              Some(Iso(2011, 1, 7, 14, 30)), NumCell(100), NULL, "France"),
       \* a price that is no number, in the month before every other line
       RawRow(Some(Pad(536100, 6)), "71053", Some("METAL LANTERN"), NumCell(4),
              Some(Slash(11, 20, 2010, 9, 0)), TextCell, Some(13047), "United Kingdom"),
       \* a return booked on an invoice that is not cancelled
       RawRow(Some(Pad(540004, 6)), "85123A", Some("HEART HOLDER"), NumCell(-2),
              Some(Slash(1, 6, 2011, 11, 0)), NumCell(255), Some(17850), "United Kingdom"),
       \* a lower-case cancellation prefix, day-first date
       RawRow(Some(<<"c">> \o Pad(540005, 6)), "22423", Some("CAKESTAND"), NumCell(1),
              Some(Dash(5, 1, 2011, 12, 0)), NumCell(500), Some(13047), "France"),
       \* a blank date
       RawRow(Some(Pad(540006, 6)), "71053", Some("METAL LANTERN"), NumCell(5),
              Some(<<" ", " ">>), NumCell(200), Some(13047), "United Kingdom"),
       \* an ISO date without seconds
       RawRow(Some(Pad(540007, 6)), "22423", Some("CAKESTAND"), NumCell(1),
              Some(IsoShort(2011, 2, 3, 16, 15)), NumCell(999), Some(14527), "France"),
       \* no invoice number, no date, a quantity that is no number
       RawRow(NULL, "85123A", Some("HEART HOLDER"), TextCell,
              NULL, NumCell(100), Some(17850), "United Kingdom"),
       \* a free item
       RawRow(Some(Pad(536366, 6)), "71053", Some("METAL LANTERN"), NumCell(1),
              Some(Slash(12, 2, 2010, 10, 5)), NumCell(0), Some(13047), "United Kingdom") >>

\* the CSV files: the scenario, and every choice of at most MaxRows pool rows
\* (row order does not matter to any report, so one order per choice)
CsvFiles ==
    {Scenario} \cup
    {[i \in 1..Len(s) |-> RowPool[s[i]]] :
        s \in {t \in UNION {[1..n -> 1..Len(RowPool)] : n \in 0..MaxRows} :
                  \A i \in 1..(Len(t) - 1) : t[i] <= t[i + 1]}}

\* what the output directory may hold before the run
StaleSets == {{}, {"top_countries.csv"}}

\* the wall clock when main() starts, and the readings it may give later
StartTime == DayNumber(2011, 1, 15) * 86400

ClockTimes == {StartTime, StartTime + 60 * 86400}

\* ------------------------------------------------------------------------
\* State
\* ------------------------------------------------------------------------
VARIABLES
    schemaExists,   \* schema.sql is there
    csvExists,      \* the CSV file is there
    loaderPc,       \* load_data.py: "start", "connected", "ensured", "loaded", "failed"
    dbExists,       \* the database file is there
    tableExists,    \* the database holds the table online_retail
    table,          \* the rows of online_retail
    mainPc,         \* run_analysis.py: "start", "reports", "summary", "done", "failed", "crashed"
    next,           \* position of the next report of the batch
    clock,          \* the last reading of the wall clock
    outDirExists,   \* the directory outputs/ is there
    files,          \* the CSV files in outputs/
    results,        \* per report the value run_query returned
    errors,         \* the reports whose error run_query printed
    saved,          \* the file names save_to_csv printed as saved
    listed,         \* the file names the final summary printed
    printed,        \* the table the last report printed: for a top-N report
                    \* its rows in their order (the order of other reports'
                    \* rows is not kept)
    metrics,        \* a row of customer_metrics: <<days_since_last_purchase,
                    \* frequency, monetary_value>>
    scores,         \* a row of rfm_scores: <<recency, frequency, monetary>> score
    segment,        \* the customer_segment the CASE gives that row
    items,          \* the column items_per_invoice of invoice_items
    buckets,        \* the rows of the basket size distribution, in order
    value,          \* a cell of the CSV column InvoiceDate
    parsed          \* <<what parse_invoice_date returned for it>>

vars ==
    <<schemaExists, csvExists, loaderPc, dbExists, tableExists, table, mainPc,
      next, clock, outDirExists, files, results, errors, saved, listed, printed,
      metrics, scores, segment, items, buckets, value, parsed>>

\* the inputs and results of the expressions that are checked on their own
rowVars == <<metrics, scores, segment, items, buckets, value, parsed>>

loaderVars == <<schemaExists, csvExists, loaderPc, dbExists, tableExists, table>>

mainVars ==
    <<mainPc, next, clock, outDirExists, files, results, errors, saved, listed, printed>>

\* the reports that end in ORDER BY <column> DESC LIMIT n, with their n
TopN ==
    [top_countries |-> 20, top_customers |-> 20, customer_clv |-> 50,
     top_products_rev |-> 30, top_products_qty |-> 30, product_returns |-> 30]

\* the column such a report is ordered by
SortValue(name, x) ==
    CASE name = "top_countries" -> x.sales_revenue
      [] name = "top_customers" -> x.customer_revenue
      [] name = "customer_clv" -> x.total_revenue
      [] name = "top_products_rev" -> x.product_revenue
      [] name = "top_products_qty" -> x.total_quantity_sold
      [] name = "product_returns" -> x.return_rate_pct

\* DESC: a comes before b (NULL is the smallest value)
SortsBefore(a, b) == ~IsNull(a) /\ (IsNull(b) \/ Val(a) > Val(b))

\* the tables ORDER BY <column> DESC LIMIT n may return for the rows of the
\* groups: the ORDER BY names no second column, and SQLite leaves the order
\* of rows with equal values open
Orderings(name, rows) ==
    IF name \notin DOMAIN TopN THEN {<<>>}
    ELSE LET n == Cardinality(rows) IN
         {SubSeq(s, 1, IF n < TopN[name] THEN n ELSE TopN[name]) :
            s \in {t \in [1..n -> rows] :
                     /\ \A i, j \in 1..n : i # j => t[i] # t[j]
                     /\ \A i \in 1..(n - 1) :
                           ~SortsBefore(SortValue(name, t[i + 1]), SortValue(name, t[i]))}}

\* before the first report
NothingPrinted == [report |-> "", rows |-> <<>>]

\* a report not yet run, a query that raised (None), a DataFrame
Pending == [status |-> "pending", rows |-> {}]

NoTable == [status |-> "failed", rows |-> {}]

DataFrame(rows) == [status |-> "ok", rows |-> rows]

Init ==
    /\ schemaExists \in BOOLEAN
    /\ csvExists \in BOOLEAN
    /\ loaderPc = "start"
    /\ dbExists = FALSE
    /\ tableExists = FALSE
    /\ table = <<>>
    /\ mainPc = "start"
    /\ next = 1
    /\ clock = StartTime
    /\ outDirExists \in BOOLEAN
    /\ files \in (IF outDirExists THEN StaleSets ELSE {{}})
    /\ results = [n \in Reports |-> Pending]
    /\ errors = {}
    /\ saved = {}
    /\ listed = {}
    /\ printed = NothingPrinted
    /\ metrics = <<>>
    /\ scores = <<>>
    /\ segment = NULL
    /\ items = <<>>
    /\ buckets = <<>>
    /\ value = NULL
    /\ parsed = <<>>

\* ------------------------------------------------------------------------
\* load_data.py (it runs before run_analysis.py is started, or not at all)
\* ------------------------------------------------------------------------
\* ensure_db_and_table up to sqlite3.connect, which creates the file
ensure_db_and_table ==
    /\ loaderPc = "start"
    /\ mainPc = "start"
    /\ IF schemaExists
       THEN loaderPc' = "connected" /\ dbExists' = TRUE
       ELSE loaderPc' = "failed" /\ dbExists' = dbExists
    /\ UNCHANGED <<schemaExists, csvExists, tableExists, table>>
    /\ UNCHANGED mainVars
    /\ UNCHANGED rowVars

\* conn.executescript(schema_sql) creates the table
executescript ==
    /\ loaderPc = "connected"
    /\ mainPc = "start"
    /\ loaderPc' = "ensured"
    /\ tableExists' = TRUE
    /\ UNCHANGED <<schemaExists, csvExists, dbExists, table>>
    /\ UNCHANGED mainVars
    /\ UNCHANGED rowVars

load_csv_to_db ==
    /\ loaderPc = "ensured"
    /\ mainPc = "start"
    /\ IF csvExists
       THEN \E csv \in CsvFiles :
               /\ table' = table \o CleanChunk(csv)
               /\ loaderPc' = "loaded"
       ELSE loaderPc' = "failed" /\ table' = table
    /\ UNCHANGED <<schemaExists, csvExists, dbExists, tableExists>>
    /\ UNCHANGED mainVars
    /\ UNCHANGED rowVars

\* ------------------------------------------------------------------------
\* run_analysis.py
\* ------------------------------------------------------------------------
\* run_query: the query raises when the table is missing
run_query(name, T, exists, now) ==
    IF exists THEN DataFrame(QueryRows(name, T, now)) ELSE NoTable

\* save_to_csv as it would be with the test "df is not None" alone
save_to_csv_any_table(df, filename) ==
    IF df.status = "ok" THEN {filename} ELSE {}

\* save_to_csv: the files it writes into outputs/ (and prints as saved)
save_to_csv(df, filename) ==
    IF df.status = "ok" /\ df.rows # {} THEN {filename} ELSE {}

\* main() as it would be with OUTPUT_DIR.mkdir moved above the check of DB_PATH
MainStartMkdirFirst ==
    /\ mainPc = "start"
    /\ outDirExists' = TRUE
    /\ mainPc' = IF dbExists THEN "reports" ELSE "failed"
    /\ UNCHANGED <<next, clock, files, results, errors, saved, listed, printed>>
    /\ UNCHANGED loaderVars
    /\ UNCHANGED rowVars

\* main() up to the connection to the database
MainStart ==
    /\ mainPc = "start"
    /\ IF dbExists
       THEN mainPc' = "reports" /\ outDirExists' = TRUE
       ELSE mainPc' = "failed" /\ outDirExists' = outDirExists
    /\ UNCHANGED <<next, clock, files, results, errors, saved, listed, printed>>
    /\ UNCHANGED loaderVars
    /\ UNCHANGED rowVars

\* the wall clock readings a query may get
Readings(name) ==
    IF name \in ReadsClock THEN {t \in ClockTimes : t >= clock} ELSE {clock}

\* what the save_to_csv call that follows a report writes
Saves(name, df) ==
    IF IsNull(ArtifactOf(name)) THEN {} ELSE save_to_csv(df, Val(ArtifactOf(name)))

\* what main() does with the value df that run_query returned for a report
Handle(name, df) ==
    /\ results' = [results EXCEPT ![name] = df]
    /\ printed' \in {[report |-> name, rows |-> s] : s \in Orderings(name, df.rows)}
    /\ errors' = IF df.status = "failed" THEN errors \cup {name} ELSE errors
    /\ IF name \in PrintsHead /\ df.status = "failed"
       THEN \* None has no head(): AttributeError leaves main()
            /\ mainPc' = "crashed"
            /\ UNCHANGED <<next, files, saved>>
       ELSE /\ files' = files \cup Saves(name, df)
            /\ saved' = saved \cup Saves(name, df)
            /\ IF next = Len(ReportNames)
               THEN mainPc' = "summary" /\ next' = next
               ELSE mainPc' = mainPc /\ next' = next + 1

\* one report of the batch: run_query, print, save_to_csv
RunReport ==
    /\ mainPc = "reports"
    /\ \E now \in Readings(ReportNames[next]) :
          /\ clock' = now
          /\ Handle(ReportNames[next],
                    run_query(ReportNames[next], table, tableExists, now))
    /\ UNCHANGED <<outDirExists, listed>>
    /\ UNCHANGED loaderVars
    /\ UNCHANGED rowVars

\* the final summary lists sorted(OUTPUT_DIR.glob("*.csv"))
Summary ==
    /\ mainPc = "summary"
    /\ listed' = files
    /\ mainPc' = "done"
    /\ UNCHANGED <<next, clock, outDirExists, files, results, errors, saved, printed>>
    /\ UNCHANGED loaderVars
    /\ UNCHANGED rowVars

Next ==
    \/ ensure_db_and_table
    \/ executescript
    \/ load_csv_to_db
    \/ MainStart
    \/ RunReport
    \/ Summary

Spec == Init /\ [][Next]_vars

\* ------------------------------------------------------------------------
\* The segment CASE on its own: one row of rfm_scores, any scores
\* ------------------------------------------------------------------------
\* the highest score the three score CASEs give
MaxScore == 5

ScoreRows == (1..MaxScore) \X (1..MaxScore) \X (1..MaxScore)

InitSegment ==
    /\ schemaExists = TRUE
    /\ csvExists = TRUE
    /\ loaderPc = "loaded"
    /\ dbExists = TRUE
    /\ tableExists = TRUE
    /\ table = <<>>
    /\ mainPc = "reports"
    /\ next = Pos("rfm_segments")
    /\ clock = StartTime
    /\ outDirExists = TRUE
    /\ files = {}
    /\ results = [n \in Reports |-> Pending]
    /\ errors = {}
    /\ saved = {}
    /\ listed = {}
    /\ printed = NothingPrinted
    /\ metrics = <<>>
    /\ scores \in ScoreRows
    /\ segment = NULL
    /\ items = <<>>
    /\ buckets = <<>>
    /\ value = NULL
    /\ parsed = <<>>

\* the CASE ... END AS customer_segment on the row
SelectSegment ==
    /\ IsNull(segment)
    /\ segment' = Some(customer_segment(scores[1], scores[2], scores[3]))
    /\ UNCHANGED <<metrics, scores, items, buckets, value, parsed>>
    /\ UNCHANGED loaderVars
    /\ UNCHANGED mainVars

SpecSegment == InitSegment /\ [][SelectSegment]_vars

\* ------------------------------------------------------------------------
\* The three score CASEs on their own: one row of customer_metrics
\* ------------------------------------------------------------------------
\* days_since_last_purchase (in seconds): NULL, and values at, just below and
\* just above every limit of the CASE
DaysValues ==
    {NULL, Some(-86400), Some(0), Some(400 * 86400)} \cup
    {Some(d * 86400 + e) : d \in {30, 60, 90, 180}, e \in {-1, 0, 1}}

FrequencyValues == {0, 1, 4, 5, 6, 9, 10, 11, 19, 20, 21, 49, 50, 51}

\* monetary_value (in cents): NULL, a negative sum, and values around the limits
MonetaryValues ==
    {NULL, Some(-100), Some(0), Some(600000)} \cup
    {Some(m * 100 + e) : m \in {500, 1000, 2000, 5000}, e \in {-1, 0, 1}}

InitScores ==
    /\ schemaExists = TRUE
    /\ csvExists = TRUE
    /\ loaderPc = "loaded"
    /\ dbExists = TRUE
    /\ tableExists = TRUE
    /\ table = <<>>
    /\ mainPc = "reports"
    /\ next = Pos("rfm_segments")
    /\ clock = StartTime
    /\ outDirExists = TRUE
    /\ files = {}
    /\ results = [n \in Reports |-> Pending]
    /\ errors = {}
    /\ saved = {}
    /\ listed = {}
    /\ printed = NothingPrinted
    /\ metrics \in DaysValues \X FrequencyValues \X MonetaryValues
    /\ scores = <<>>
    /\ segment = NULL
    /\ items = <<>>
    /\ buckets = <<>>
    /\ value = NULL
    /\ parsed = <<>>

\* the three CASE ... END AS ..._score on the row
ScoreRow ==
    /\ scores = <<>>
    /\ scores' = <<recency_score(metrics[1]), frequency_score(metrics[2]),
                   monetary_score(metrics[3])>>
    /\ UNCHANGED <<metrics, segment, items, buckets, value, parsed>>
    /\ UNCHANGED loaderVars
    /\ UNCHANGED mainVars

SpecScores == InitScores /\ [][ScoreRow]_vars

\* ------------------------------------------------------------------------
\* Properties of the batch (specification Spec)
\* ------------------------------------------------------------------------
\* the reports run so far
Executed == {n \in Reports : results[n].status # "pending"}

\* C1: a report whose query failed is reported and aborts nothing: main()
\* still runs every later report and reaches the final summary.
C1_FailedReportAbortsNothing ==
    /\ errors # {} => mainPc \in {"reports", "summary", "done"}
    /\ mainPc \in {"summary", "done"} => Executed = Reports

\* C2: without the database file main() fails at its first step: the output
\* directory is not created, no query runs, nothing is written, and nothing
\* happens afterwards.
C2_MissingDatabaseFailsAtOnce ==
    [][ /\ (mainPc = "start" /\ ~dbExists /\ mainPc' # "start")
            => /\ mainPc' = "failed"
               /\ UNCHANGED <<outDirExists, files, results, errors, saved, listed, next>>
        /\ mainPc = "failed" => UNCHANGED vars ]_vars

\* main() failed for want of the database, and there is still no outputs/
C2_Witness ==
    /\ mainPc = "failed"
    /\ ~dbExists
    /\ ~outDirExists
    /\ Executed = {}

\* C3: save_to_csv writes the file exactly when the table has at least one
\* row: nothing is written for an empty table or for a failed query, and
\* outputs/ holds no file that neither this run nor an earlier one wrote.
C3_OnlyNonEmptyTablesAreWritten ==
    /\ \A n \in Reports :
          ~IsNull(ArtifactOf(n)) =>
              (Val(ArtifactOf(n)) \in saved
                  <=> results[n].status = "ok" /\ results[n].rows # {})
    /\ files \subseteq saved \cup UNION StaleSets

\* a run over an empty store: top_countries returned no row and left no file,
\* missing_values returned its one row and was written
C3_Witness ==
    /\ mainPc = "done"
    /\ results["top_countries"] = DataFrame({})
    /\ "top_countries.csv" \notin files
    /\ "data_quality_report.csv" \in files

\* C4: the final summary lists exactly the artifacts the reports of this run
\* produced, whatever outputs/ held before.
C4_SummaryListsThisRun == mainPc = "done" => listed = saved

\* the three lines of the scenario are the store, and the batch is through
ScenarioLoaded == table = CleanChunk(Scenario) /\ mainPc = "done"

\* the figures of the scenario, with a given number of customers
ScenarioKpis(customers) ==
    /\ Cardinality(results["business_kpis"].rows) = 1
    /\ \A k \in results["business_kpis"].rows :
          /\ k.total_sales_revenue = Some(3564)
          /\ k.total_invoices = 1
          /\ k.total_customers = customers
    /\ Cardinality(results["cancellation_analysis"].rows) = 1
    /\ \A c \in results["cancellation_analysis"].rows :
          c.cancellation_rate_pct = Some(5000)

\* C5 (as amended): over the three-line scenario the KPI report gives
\* total_sales_revenue 35.64, total_invoices 1 and total_customers 1 (the
\* customer of the cancelled invoice is filtered out with it), and the
\* cancellation rate is 50.0.
C5_ScenarioKpisOneCustomer == ScenarioLoaded => ScenarioKpis(1)

\* C5 as stated: total_customers = 2
C5_ScenarioKpisTwoCustomers == ScenarioLoaded => ScenarioKpis(2)

C5_Witness == ScenarioLoaded /\ results["business_kpis"].rows # {}

\* C6: in the distinct-counts report valid_invoices + cancelled_invoices =
\* total_invoices, for any store.
C6_InvoicePartition ==
    \A d \in results["distinct_counts"].rows :
        d.valid_invoices + d.cancelled_invoices = d.total_invoices

\* a store with a lower-case cancellation and a valid invoice, counted
C6_Witness ==
    /\ \E i \in 1..Len(table) :
          ~IsNull(table[i].InvoiceNo) /\ Head(Val(table[i].InvoiceNo)) = "c"
    /\ \E d \in results["distinct_counts"].rows :
          d.cancelled_invoices = 1 /\ d.valid_invoices = 1

\* a ratio column against its numerator and denominator: NULL over a zero (or
\* NULL) denominator, 0 for a zero numerator over any other denominator
SafeRatio(ratio, num, den) ==
    /\ (IsNull(den) \/ den = Some(0)) => IsNull(ratio)
    /\ (~IsNull(den) /\ den # Some(0) /\ num = Some(0)) => ratio = Some(0)

\* C7: in every report a ratio or percentage over a zero denominator is null
\* and the report does not fail; a zero numerator over a non-zero denominator
\* gives 0.
C7_ZeroDenominatorGivesNull ==
    /\ tableExists => \A n \in Executed : results[n].status = "ok"
    /\ \A x \in results["missing_values"].rows :
          SafeRatio(x.pct_missing_customer_id, x.missing_customer_id, Some(x.total_rows))
    /\ \A x \in results["cancellation_analysis"].rows :
          SafeRatio(x.cancellation_rate_pct, Some(x.cancelled_invoices), Some(x.total_invoices))
    /\ \A x \in results["top_countries"].rows :
          SafeRatio(x.avg_order_value, x.sales_revenue, Some(x.num_invoices))
    /\ \A x \in results["revenue_growth"].rows :
          SafeRatio(x.growth_rate_pct, x.revenue_change, x.previous_month_revenue)
    /\ \A x \in results["top_customers"].rows :
          SafeRatio(x.avg_order_value, x.customer_revenue, Some(x.num_invoices))
    /\ \A x \in results["customer_clv"].rows :
          SafeRatio(x.revenue_per_month, x.total_revenue, Some(x.active_months))
    /\ \A x \in results["country_analysis"].rows :
          /\ SafeRatio(x.avg_order_value, x.sales_revenue, Some(x.num_invoices))
          /\ SafeRatio(x.revenue_per_customer, x.sales_revenue, Some(x.num_customers))
    /\ \A x \in results["business_kpis"].rows :
          /\ SafeRatio(x.avg_order_value, x.total_sales_revenue, Some(x.total_invoices))
          /\ SafeRatio(x.avg_customer_value, x.total_sales_revenue, Some(x.total_customers))

\* a store of guest lines only: the country has no customer to divide by,
\* and no invoice of the store is cancelled
C7_Witness ==
    /\ \E x \in results["country_analysis"].rows :
          x.num_customers = 0 /\ IsNull(x.revenue_per_customer)
    /\ \E x \in results["cancellation_analysis"].rows :
          x.total_invoices > 0 /\ x.cancellation_rate_pct = Some(0)
    /\ mainPc = "done"

\* the number of distinct customers whose first purchase fell in month c
CohortSize(c) ==
    Cardinality({fp \in first_purchase(table) : fp.first_purchase_date = c})

\* the rows of the cohort report for cohort month c
CohortRows(c) == {x \in results["customer_cohorts"].rows : x.cohort_month = c}

\* the customers column summed over the rows of cohort month c
SumCustomers(c) ==
    Total(Col(SeqOf(CohortRows(c)), LAMBDA x : Some(x.customers)))

\* the cohort months of the report
CohortMonths == {x.cohort_month : x \in results["customer_cohorts"].rows}

\* C8 (as amended): in the cohort report every row counts at most the
\* distinct customers whose first purchase fell in its cohort month, and every
\* row counts at least one; a customer is counted once in each order_month in
\* which they bought, so the sum over a cohort's rows may exceed the cohort.
C8_RowWithinCohort ==
    \A x \in results["customer_cohorts"].rows :
        x.customers >= 1 /\ x.customers <= CohortSize(x.cohort_month)

\* C8 as stated: the customers column summed over a cohort's rows is the
\* number of distinct customers of the cohort
C8_SumIsCohortSize == \A c \in CohortMonths : SumCustomers(c) = CohortSize(c)

\* a cohort with rows for two order months
C8_Witness ==
    \E c \in CohortMonths :
        /\ Cardinality(CohortRows(c)) = 2
        /\ SumCustomers(c) > CohortSize(c)

\* C9: in the hourly, day-of-week, monthly and growth reports a row without
\* a parseable timestamp is in no bucket: no output row has a null key.
C9_NoNullTimeBucket ==
    /\ \A x \in results["hourly_pattern"].rows : ~IsNull(x.hour_of_day)
    /\ \A x \in results["day_of_week"].rows : ~IsNull(x.day_of_week)
    /\ \A x \in results["monthly_trend"].rows : ~IsNull(x.year_month)
    /\ \A x \in results["revenue_growth"].rows : ~IsNull(x.year_month)

\* ------------------------------------------------------------------------
\* Properties of the segment CASE (specification SpecSegment)
\* ------------------------------------------------------------------------
\* the eight rules, in their order
RuleLabels ==
    <<"Champions", "Loyal Customers", "Potential Loyalists", "At Risk",
      "Cannot Lose Them", "Hibernating", "Lost", "Need Attention">>

RuleHolds(k, r, f, m) ==
    CASE k = 1 -> r >= 4 /\ f >= 4 /\ m >= 4
      [] k = 2 -> r >= 3 /\ f >= 4 /\ m >= 3
      [] k = 3 -> r >= 4 /\ f <= 2
      [] k = 4 -> r >= 3 /\ f <= 2 /\ m >= 3
      [] k = 5 -> r <= 2 /\ f >= 3
      [] k = 6 -> r <= 2 /\ f <= 2 /\ m >= 3
      [] k = 7 -> r <= 2
      [] OTHER -> TRUE

\* the first rule that holds
FirstRule(r, f, m) ==
    CHOOSE k \in 1..Len(RuleLabels) :
        RuleHolds(k, r, f, m) /\ \A j \in 1..(k - 1) : ~RuleHolds(j, r, f, m)

\* C10: for every score triple the segment is the label of the first rule
\* that holds in the order 1..8; (5,5,5) is Champions and (1,1,1) is Lost.
C10_FirstMatchingRule ==
    ~IsNull(segment) =>
        /\ Val(segment) = RuleLabels[FirstRule(scores[1], scores[2], scores[3])]
        /\ scores = <<5, 5, 5>> => Val(segment) = "Champions"
        /\ scores = <<1, 1, 1>> => Val(segment) = "Lost"

\* a triple that the third and the fourth rule both accept, labelled
C10_Witness ==
    /\ scores = <<4, 1, 3>>
    /\ RuleHolds(3, 4, 1, 3) /\ RuleHolds(4, 4, 1, 3)
    /\ segment = Some("Potential Loyalists")

\* C19: over all score triples 'At Risk' is given exactly when r = 3, f <= 2
\* and m >= 3, and 'Lost' exactly when r <= 2, f <= 2 and m <= 2.
C19_AtRiskAndLostRegions ==
    ~IsNull(segment) =>
        /\ segment = Some("At Risk")
              <=> (scores[1] = 3 /\ scores[2] <= 2 /\ scores[3] >= 3)
        /\ segment = Some("Lost")
              <=> (scores[1] <= 2 /\ scores[2] <= 2 /\ scores[3] <= 2)

\* a triple the fourth rule accepts and the third does not, labelled; the
\* third rule takes the same f and m once r is 4
C19_Witness ==
    /\ scores = <<3, 2, 3>>
    /\ segment = Some("At Risk")
    /\ customer_segment(4, 2, 3) = "Potential Loyalists"

\* ------------------------------------------------------------------------
\* Properties of the score CASEs (specification SpecScores)
\* ------------------------------------------------------------------------
\* a score by its limits: 1, and one more for every limit the value meets
RecencyByLimits(days) ==
    IF IsNull(days) THEN 1
    ELSE 1 + Cardinality({t \in {30, 60, 90, 180} : Val(days) <= t * 86400})

FrequencyByLimits(frequency) ==
    1 + Cardinality({t \in {5, 10, 20, 50} : frequency >= t})

MonetaryByLimits(monetary_value) ==
    IF IsNull(monetary_value) THEN 1
    ELSE 1 + Cardinality({t \in {500, 1000, 2000, 5000} : Val(monetary_value) >= t * 100})

\* C11: the three scores are defined for every input and lie in 1..5:
\* recency <= 30, 60, 90, 180 days gives 5, 4, 3, 2, frequency >= 50, 20, 10, 5
\* and monetary >= 5000, 2000, 1000, 500 give 5, 4, 3, 2, anything else 1,
\* every limit included.
C11_ScoresByLimits ==
    (metrics # <<>> /\ scores # <<>>) =>
        /\ \A i \in 1..3 : scores[i] \in 1..MaxScore
        /\ scores[1] = RecencyByLimits(metrics[1])
        /\ scores[2] = FrequencyByLimits(metrics[2])
        /\ scores[3] = MonetaryByLimits(metrics[3])

\* a row with each value exactly on the limit of score 5, scored
C11_Witness ==
    /\ metrics = <<Some(30 * 86400), 50, Some(5000 * 100)>>
    /\ scores = <<5, 5, 5>>

\* ------------------------------------------------------------------------
\* Further properties of the batch (specification Spec)
\* ------------------------------------------------------------------------
\* C12: recency is the evaluation instant the caller supplied (here the
\* instant main() was started at) minus the last qualifying purchase, so the
\* RFM reports over the same store give every customer the same recency
\* score and segment whenever their queries happen to run.
C12_RecencyFromSuppliedInstant ==
    /\ results["rfm_segments"].status = "ok"
          => results["rfm_segments"].rows = rfm_segments(table, StartTime)
    /\ results["rfm_summary"].status = "ok"
          => results["rfm_summary"].rows = rfm_summary(table, StartTime)

\* g is 100 * change / previous rounded to two places (g in hundredths)
IsGrowthRate(g, change, previous) ==
    LET e == g * previous - 10000 * change IN
    2 * (IF e < 0 THEN -e ELSE e) <= (IF previous < 0 THEN -previous ELSE previous)

\* the rows of the growth report come in the order of their keys, and each
\* row's previous_month_revenue is the revenue of the row before it
GrowthAgainstPrecedingRow(G) ==
    /\ {G[k] : k \in DOMAIN G} = results["revenue_growth"].rows
    /\ \A k \in 1..(Len(G) - 1) : KeyBefore(G[k].year_month, G[k + 1].year_month)
    /\ \A k \in DOMAIN G :
          G[k].previous_month_revenue = (IF k = 1 THEN NULL ELSE G[k - 1].revenue)

\* revenue_change is NULL for the first row and revenue minus previous
\* revenue for every other row
GrowthChange(x) ==
    IF IsNull(x.previous_month_revenue) THEN IsNull(x.revenue_change)
    ELSE x.revenue_change = Some(Val(x.revenue) - Val(x.previous_month_revenue))

\* growth_rate_pct is NULL for the first row and after a revenue of zero,
\* and the rounded percentage of the change for every other row
GrowthRate(x) ==
    IF IsNull(x.previous_month_revenue) \/ x.previous_month_revenue = Some(0)
    THEN IsNull(x.growth_rate_pct)
    ELSE /\ ~IsNull(x.growth_rate_pct)
         /\ IsGrowthRate(Val(x.growth_rate_pct), Val(x.revenue_change),
                         Val(x.previous_month_revenue))

\* C14 as stated: the months come in key order, change and growth rate are
\* taken against the month before in that order, and both are NULL for the
\* first month and after a month whose revenue is zero.
C14_ChangeNullAfterZeroMonth ==
    results["revenue_growth"].status = "ok" =>
        LET G == revenue_growth_sorted(table) IN
        /\ GrowthAgainstPrecedingRow(G)
        /\ \A k \in DOMAIN G :
              /\ GrowthRate(G[k])
              /\ IF G[k].previous_month_revenue = Some(0)
                 THEN IsNull(G[k].revenue_change)
                 ELSE GrowthChange(G[k])

\* C14: the months come in key order, change and growth rate are taken
\* against the month before in that order; both are NULL for the first
\* month, and after a month whose revenue is zero the growth rate is NULL
\* while the change is the month's revenue.
C14_GrowthAgainstPrecedingMonth ==
    results["revenue_growth"].status = "ok" =>
        LET G == revenue_growth_sorted(table) IN
        /\ GrowthAgainstPrecedingRow(G)
        /\ \A k \in DOMAIN G : GrowthRate(G[k]) /\ GrowthChange(G[k])

\* a month with sales after a month without
C14_Witness ==
    \E x \in results["revenue_growth"].rows :
        /\ x.previous_month_revenue = Some(0)
        /\ x.revenue_change = x.revenue
        /\ Val(x.revenue) > 0
        /\ IsNull(x.growth_rate_pct)

\* the qualifying purchases of customer c: lines with a price and a quantity
\* above 0 on an invoice that is not cancelled
QualifyingOf(c) == Where(Sales(table), LAMBDA r : r.CustomerID = c)

\* the calendar month of the earliest of them
FirstQualifyingMonth(c) == MinText(Col(QualifyingOf(c), MonthOf))

\* the customers that have a qualifying purchase
Buyers == Keys(Sales(table), CustomerOf) \ {NULL}

\* C16: every customer is counted under one cohort_month only, the calendar
\* month of their earliest qualifying purchase, and under no order_month
\* earlier than it.
C16_CohortIsFirstQualifyingMonth ==
    results["customer_cohorts"].status = "ok" =>
        LET Rows == results["customer_cohorts"].rows IN
        /\ \A x \in Rows :
              x.customers =
                  Cardinality({c \in Buyers :
                      /\ FirstQualifyingMonth(c) = x.cohort_month
                      /\ x.order_month \in Keys(QualifyingOf(c), MonthOf)})
        /\ \A x \in Rows :
              (~IsNull(x.cohort_month) /\ ~IsNull(x.order_month)) =>
                  ~TextLess(Val(x.order_month), Val(x.cohort_month))

\* the names of the stores of the model (stock codes, descriptions,
\* countries) in ascending order
NameOrder ==
    <<"22423", "71053", "85123A", "CAKESTAND", "D", "Discount", "France", "HEART HOLDER",
      "METAL LANTERN", "No Description", "United Kingdom">>

NameRank(s) == CHOOSE i \in DOMAIN NameOrder : NameOrder[i] = s

\* row x comes before row y by the key their groups were built on
NaturalKeyBefore(name, x, y) ==
    CASE name = "top_countries" -> NameRank(Val(x.Country)) < NameRank(Val(y.Country))
      [] name \in {"top_customers", "customer_clv"} -> Val(x.CustomerID) < Val(y.CustomerID)
      [] OTHER ->
            \/ NameRank(Val(x.StockCode)) < NameRank(Val(y.StockCode))
            \/ /\ x.StockCode = y.StockCode
               /\ NameRank(x.Description) < NameRank(y.Description)

\* C15: in a top-N report rows with the same sort value come in the
\* ascending order of their grouping key, so the store determines the
\* table the report prints and saves.
C15_TiesInKeyOrder ==
    \A k \in 1..(Len(printed.rows) - 1) :
        SortValue(printed.report, printed.rows[k])
                = SortValue(printed.report, printed.rows[k + 1])
            => NaturalKeyBefore(printed.report, printed.rows[k], printed.rows[k + 1])

\* C18: the basket size distribution counts the invoices the invoice-level
\* statistics count (those with a sale line that has a price), so its
\* num_invoices add up to total_invoices.
C18_BucketsSumToTotalInvoices ==
    (results["basket_distribution"].status = "ok" /\ results["invoice_stats"].status = "ok") =>
        \A s \in results["invoice_stats"].rows :
            s.total_invoices =
                Total(Col(SeqOf(results["basket_distribution"].rows),
                          LAMBDA b : Some(b.num_invoices)))

\* ------------------------------------------------------------------------
\* The outer query of the basket size distribution on its own
\* (specification SpecBasket): GROUP BY basket_size_category
\* ORDER BY MIN(items_per_invoice) over a given invoice_items
\* ------------------------------------------------------------------------
\* the invoices of invoice_items
MaxInvoices == 2

\* item counts at, below and above every limit of the CASE; the CASE is
\* defined on 0 as well, which the subquery (Quantity > 0) never delivers
ItemCounts == {0, 1, 2, 5, 6, 10, 11, 20, 21, 50, 51, 60}

\* the invoices of one group
InvoicesOf(counts, c) == {i \in DOMAIN counts : basket_size_category(counts[i]) = c}

\* MIN(items_per_invoice) of one group, the sort key
BucketMin(counts, c) ==
    LET S == {counts[i] : i \in InvoicesOf(counts, c)} IN
    CHOOSE v \in S : \A w \in S : v <= w

\* the place ORDER BY gives a group (two groups never share a minimum)
BucketRank(counts, C, c) ==
    1 + Cardinality({d \in C : BucketMin(counts, d) < BucketMin(counts, c)})

\* the rows of the outer query in their order (percentage, which reads the
\* table again, is in basket_distribution)
basket_rows(counts) ==
    LET C == {basket_size_category(counts[i]) : i \in DOMAIN counts} IN
    [k \in 1..Cardinality(C) |->
        LET c == CHOOSE d \in C : BucketRank(counts, C, d) = k IN
        [basket_size_category |-> c,
         num_invoices         |-> Cardinality(InvoicesOf(counts, c))]]

InitBasket ==
    /\ schemaExists = TRUE
    /\ csvExists = TRUE
    /\ loaderPc = "loaded"
    /\ dbExists = TRUE
    /\ tableExists = TRUE
    /\ table = <<>>
    /\ mainPc = "reports"
    /\ next = Pos("basket_distribution")
    /\ clock = StartTime
    /\ outDirExists = TRUE
    /\ files = {}
    /\ results = [n \in Reports |-> Pending]
    /\ errors = {}
    /\ saved = {}
    /\ listed = {}
    /\ printed = NothingPrinted
    /\ metrics = <<>>
    /\ scores = <<>>
    /\ segment = NULL
    /\ items \in UNION {[1..n -> ItemCounts] : n \in 1..MaxInvoices}
    /\ buckets = <<>>
    /\ value = NULL
    /\ parsed = <<>>

GroupInvoices ==
    /\ buckets = <<>>
    /\ buckets' = basket_rows(items)
    /\ UNCHANGED <<metrics, scores, segment, items, value, parsed>>
    /\ UNCHANGED loaderVars
    /\ UNCHANGED mainVars

SpecBasket == InitBasket /\ [][GroupInvoices]_vars

\* the buckets as the labels name them: lower bound, upper bound (50+ has none)
BucketLower(c) ==
    CASE c = "1 item" -> 1 [] c = "2-5 items" -> 2 [] c = "6-10 items" -> 6
      [] c = "11-20 items" -> 11 [] c = "21-50 items" -> 21 [] c = "50+ items" -> 51

BucketUpper(c) ==
    CASE c = "1 item" -> 1 [] c = "2-5 items" -> 5 [] c = "6-10 items" -> 10
      [] c = "11-20 items" -> 20 [] c = "21-50 items" -> 50

InBucket(n, c) == BucketLower(c) <= n /\ (c = "50+ items" \/ n <= BucketUpper(c))

BucketsByBounds ==
    /\ \A i \in DOMAIN items :
          Cardinality({k \in DOMAIN buckets :
                          InBucket(items[i], buckets[k].basket_size_category)}) = 1
    /\ \A k \in DOMAIN buckets :
          buckets[k].num_invoices =
              Cardinality({i \in DOMAIN items :
                              InBucket(items[i], buckets[k].basket_size_category)})
    /\ \A k \in 1..(Len(buckets) - 1) :
          BucketLower(buckets[k].basket_size_category)
              < BucketLower(buckets[k + 1].basket_size_category)

DateTexts ==
    {<<>>, <<" ">>, <<"n", "/", "a">>,
     Slash(12, 1, 2010, 8, 26), Slash(1, 5, 2011, 10, 0), Slash(12, 31, 2010, 23, 59),
     Slash(2, 29, 2012, 0, 0), Slash(2, 29, 2011, 0, 0), Slash(13, 1, 2011, 10, 0),
     Slash(12, 1, 2010, 24, 0), Slash(12, 1, 2010, 8, 60),
     Dash(5, 1, 2011, 12, 0), Dash(31, 12, 2010, 23, 59), Dash(31, 4, 2011, 9, 30),
     Iso(2011, 1, 7, 14, 30), Iso(2011, 2, 30, 14, 30), IsoShort(2011, 2, 3, 16, 15)}

\* the cells of the column: NaN, and each text bare or with blanks around it
DateValues ==
    {NULL} \cup
    {Some(l \o t \o r) : l \in {<<>>, <<" ">>}, r \in {<<>>, <<" ", " ">>}, t \in DateTexts}

InitParse ==
    /\ schemaExists = TRUE
    /\ csvExists = TRUE
    /\ loaderPc = "ensured"
    /\ dbExists = TRUE
    /\ tableExists = TRUE
    /\ table = <<>>
    /\ mainPc = "start"
    /\ next = 1
    /\ clock = StartTime
    /\ outDirExists = TRUE
    /\ files = {}
    /\ results = [n \in Reports |-> Pending]
    /\ errors = {}
    /\ saved = {}
    /\ listed = {}
    /\ printed = NothingPrinted
    /\ metrics = <<>>
    /\ scores = <<>>
    /\ segment = NULL
    /\ items = <<>>
    /\ buckets = <<>>
    /\ value \in DateValues
    /\ parsed = <<>>

\* chunk["InvoiceDate"].apply(parse_invoice_date) on one cell
ParseCell ==
    /\ parsed = <<>>
    /\ parsed' = <<parse_invoice_date(value)>>
    /\ UNCHANGED <<metrics, scores, segment, items, buckets, value>>
    /\ UNCHANGED loaderVars
    /\ UNCHANGED mainVars

SpecParse == InitParse /\ [][ParseCell]_vars

\* a text of blanks only
IsBlank(text) == \A i \in DOMAIN text : IsSpace(text[i])

\* the text has the shape YYYY-MM-DD HH:MM:SS
IsCanonical(text) ==
    /\ Len(text) = 19
    /\ \A i \in 1..19 :
          IF i \in {5, 8} THEN text[i] = "-"
          ELSE IF i = 11 THEN text[i] = " "
          ELSE IF i \in {14, 17} THEN text[i] = ":"
          ELSE IsDigit(text[i])

\* the date and time the text, blanks around it aside, denotes in one of the
\* accepted formats
Accepted(text) ==
    {Val(strptime(strip(text), PyFormats[k])) :
        k \in {j \in DOMAIN PyFormats : ~IsNull(strptime(strip(text), PyFormats[j]))}}

\* the date and time a canonical text denotes
CanonicalFields(text) ==
    [Y |-> NumAt(text, 1, 4), m |-> NumAt(text, 6, 2), d |-> NumAt(text, 9, 2),
     H |-> NumAt(text, 12, 2), M |-> NumAt(text, 15, 2), S |-> NumAt(text, 18, 2)]

ParsedNullOnlyIfMissing ==
    IsNull(parsed[1]) <=> (IsNull(value) \/ IsBlank(Val(value)))

ParsedCanonicalIfAccepted ==
    (~IsNull(value) /\ Accepted(Val(value)) # {}) =>
        /\ ~IsNull(parsed[1])
        /\ IsCanonical(Val(parsed[1]))
        /\ Accepted(Val(value)) = {CanonicalFields(Val(parsed[1]))}

Unparseable == ~IsNull(value) /\ ~IsBlank(Val(value)) /\ Accepted(Val(value)) = {}

====
